---- MODULE Spec2Model ----
(***************************************************************************)
(* Quota-governed recording lifecycle of the speech-to-text backend: the   *)
(* PostgreSQL stored procedures and the recordings insert trigger that     *)
(* keep the per-user subscription counters, modelled as operations on the  *)
(* tables plans, user_subscriptions, recordings and segments.              *)
(***************************************************************************)
EXTENDS Integers, Sequences, FiniteSets, Bags, TLC

(* ------------------------------------------------------------------ *)
(* Bounds of the model                                                   *)
(* ------------------------------------------------------------------ *)
\* length of a billing month in clock ticks
Period == 1
\* last clock value explored
MaxTime == 2
\* number of recording ids (gen_random_uuid is modelled by the next free id)
MaxRecs == 2
\* job allowance of plan FREE (10 in the seed data, scaled down)
FreeJobs == 1
\* minute allowance of plan FREE (30 in the seed data, scaled down)
FreeMinutes == 1
\* largest used_seconds explored
MaxUsedSeconds == 120
\* largest number of segment rows explored
MaxSegments == 2
\* ticks after which the sweep treats a processing recording as stuck
Timeout == 1
\* number of concurrent sessions calling sp_check_quota_and_create_recording
NProcs == 3
\* in_retention_days of the cleanup (90 by default, scaled down to ticks)
Retention == 1
\* in_batch_size of the cleanup (1000 by default, scaled down)
BatchSize == 1
\* number of calls of useCompleteUpload().upload that run at the same time
NUploads == 2
\* number of times Start Recording is clicked on the speech-to-text page
NStarts == 2

Users == {"u1", "u2"}
MainUsers == {"u1"}
PlanCodes == {"FREE", "PREMIUM"}
\* ids of table recordings; MainRecIds are the ids the sequential machine uses
RecIds == 1 .. (IF MaxRecs > NProcs THEN MaxRecs ELSE NProcs)
MainRecIds == 1 .. MaxRecs
Procs == 1 .. NProcs
UploadCalls == 1 .. NUploads
StartCalls == 1 .. NStarts
NoRow == [none |-> TRUE]
NULL == 0
DurationsMs == {999, 60500}

SegA == [idx |-> 0, start_ms |-> 0, end_ms |-> 1000, text |-> "a"]
\* a segment whose "text" key is missing: seg->>'text' is NULL
SegNoText == [idx |-> 0, start_ms |-> 0, end_ms |-> 1000, text |-> "NULL"]
Batches == {<<SegA>>, <<SegNoText>>}
\* a batch whose second element is malformed
MixedBatch == <<SegA, SegNoText>>

VARIABLES
  now,                 \* the database clock, now()
  plans,               \* table plans, keyed by code
  user_subscriptions,  \* table user_subscriptions, keyed by user_id (UNIQUE)
  recordings,          \* table recordings, keyed by id
  segments,            \* table segments, a bag of rows
  last,                \* the last call and what it returned
  charged,             \* history: recordings for which seconds were charged
  deleted,             \* history: ids of recordings that were deleted
  pc, v_sub, lock, outcome,  \* concurrent sessions of sp_check_quota_and_create_recording
  uploads,             \* browser: the running calls of useCompleteUpload().upload
  users,               \* table users: the ids of its rows (email and user_name are UNIQUE)
  user_profiles,       \* table user_profiles: the user_id of its rows (PRIMARY KEY)
  isRecording,         \* SpeechToTextPage: the isRecording state
  mediaStreamRef, audioContextRef, processorRef, websocketRef,
                       \* its refs: NULL, or the startRecording call that made the object
  startRecordingAt,    \* where each startRecording call stands
  streams, contexts, worklets, sockets   \* the objects each call has made

vars == <<now, plans, user_subscriptions, recordings, segments, last, charged,
          deleted, pc, v_sub, lock, outcome, uploads, users, user_profiles,
          isRecording, mediaStreamRef, audioContextRef, processorRef, websocketRef,
          startRecordingAt, streams, contexts, worklets, sockets>>
sessVars == <<pc, v_sub, lock, outcome>>
pageVars == <<isRecording, mediaStreamRef, audioContextRef, processorRef, websocketRef,
              startRecordingAt, streams, contexts, worklets, sockets>>
clientVars == <<uploads, pageVars>>

(* ------------------------------------------------------------------ *)
(* The database as one value                                             *)
(* ------------------------------------------------------------------ *)
DB == [plans |-> plans, user_subscriptions |-> user_subscriptions,
       recordings |-> recordings, segments |-> segments,
       users |-> users, user_profiles |-> user_profiles]

\* date_trunc('month', t)
MonthStart(t) == (t \div Period) * Period

SeedPlans ==
  [c \in PlanCodes |->
     IF c = "FREE"
     THEN [monthly_usage_limit |-> FreeJobs, monthly_minutes |-> FreeMinutes,
           is_active |-> TRUE, is_default |-> TRUE]
     ELSE [monthly_usage_limit |-> FreeJobs + 1, monthly_minutes |-> FreeMinutes + 1,
           is_active |-> TRUE, is_default |-> FALSE]]

\* WHERE user_id = u AND now() >= cycle_start AND now() < cycle_end
ActiveSubscription(db, t, u) ==
  /\ db.user_subscriptions[u] # NoRow
  /\ t >= db.user_subscriptions[u].cycle_start
  /\ t < db.user_subscriptions[u].cycle_end

\* rows of table segments that belong to recording id
SegmentsOf(segs, id) == {s \in BagToSet(segs) : s.recording_id = id}
SegmentCount(segs, id) ==
  LET rows == SegmentsOf(segs, id)
      RECURSIVE Sum(_)
      Sum(S) == IF S = {} THEN 0
                ELSE LET x == CHOOSE y \in S : TRUE
                     IN CopiesIn(x, segs) + Sum(S \ {x})
  IN Sum(rows)

FreeIds(recs) == {i \in RecIds : recs[i] = NoRow}
\* gen_random_uuid(): an id no row of recordings has
NewRecordingId(recs) ==
  IF FreeIds(recs) = {} THEN NULL
  ELSE CHOOSE i \in FreeIds(recs) : \A j \in FreeIds(recs) : i <= j

(* ------------------------------------------------------------------ *)
(* Trigger increment_usage_on_recording (AFTER INSERT ON recordings)     *)
(* ------------------------------------------------------------------ *)
\* The checks and the UPDATE of the trigger, run on the subscription row us
\* it has locked with SELECT ... FOR UPDATE.  raised = "" means RETURN NEW.
trg_increment_unchecked(us, found) ==
  [row |-> IF found THEN [us EXCEPT !.usage_count = us.usage_count + 1] ELSE us,
   raised |-> ""]

trg_check_off_by_one(us, found) ==
  IF ~found
  THEN [row |-> us, raised |-> "no_active_subscription"]
  ELSE IF us.usage_count > us.plan_monthly_usage_limit_snapshot
  THEN [row |-> us, raised |-> "check_violation"]
  ELSE [row |-> [us EXCEPT !.usage_count = us.usage_count + 1], raised |-> ""]

\* the checks of the trigger without its UPDATE
trg_check_only(us, found) ==
  IF ~found
  THEN [row |-> us, raised |-> "no_active_subscription"]
  ELSE IF us.usage_count >= us.plan_monthly_usage_limit_snapshot
  THEN [row |-> us, raised |-> "check_violation"]
  ELSE [row |-> us, raised |-> ""]

trg_check_and_increment(us, found) ==
  IF ~found
  THEN [row |-> us, raised |-> "no_active_subscription"]
  ELSE IF us.usage_count >= us.plan_monthly_usage_limit_snapshot
  THEN [row |-> us, raised |-> "check_violation"]
  ELSE IF ~(us.usage_count < us.plan_monthly_usage_limit_snapshot)
  THEN [row |-> us, raised |-> "increment_failed"]
  ELSE [row |-> [us EXCEPT !.usage_count = us.usage_count + 1], raised |-> ""]

trg_increment_usage_on_recording(db, t, user_id) ==
  LET us == db.user_subscriptions[user_id]
      r == trg_check_and_increment(us, ActiveSubscription(db, t, user_id))
  IN [db |-> [db EXCEPT !.user_subscriptions[user_id] = r.row], raised |-> r.raised]

(* ------------------------------------------------------------------ *)
(* FUNCTION sp_check_quota_and_create_recording                          *)
(* ------------------------------------------------------------------ *)
\* ''::TEXT
NoMessage == [text |-> "", n |-> 0]

\* The two IFs of the function on the rows it has read: the error message
\* it returns (its text and the %s it formats), or '' when both checks pass.
quota_check_strict(v_subscription, v_plan) ==
  IF v_subscription.usage_count > v_plan.monthly_usage_limit
  THEN [text |-> "Monthly usage limit reached", n |-> v_plan.monthly_usage_limit]
  ELSE IF v_subscription.used_seconds >= v_plan.monthly_minutes * 60
  THEN [text |-> "Monthly minutes limit reached", n |-> v_plan.monthly_minutes]
  ELSE NoMessage

quota_check(v_subscription, v_plan) ==
  IF v_subscription.usage_count >= v_plan.monthly_usage_limit
  THEN [text |-> "Monthly usage limit reached", n |-> v_plan.monthly_usage_limit]
  ELSE IF v_subscription.used_seconds >= v_plan.monthly_minutes * 60
  THEN [text |-> "Monthly minutes limit reached", n |-> v_plan.monthly_minutes]
  ELSE NoMessage

\* status DEFAULT 'processing', duration_ms DEFAULT 0, created_at DEFAULT now()
NewRecording(user_id, t) ==
  [user_id |-> user_id, status |-> "processing", duration_ms |-> 0, created_at |-> t]

\* One call in a session of its own.  A raised exception aborts the
\* transaction, so the database is left as it was.
sp_check_quota_and_create_recording(db, t, in_user_id) ==
  IF ~ActiveSubscription(db, t, in_user_id)
  THEN [db |-> db, recording_id |-> NULL, quota_ok |-> FALSE,
        error_message |-> [text |-> "No active subscription found", n |-> 0], raised |-> ""]
  ELSE
    LET v_subscription == db.user_subscriptions[in_user_id]
        v_plan == db.plans[v_subscription.plan_id]
        msg == quota_check(v_subscription, v_plan)
        v_recording_id == NewRecordingId(db.recordings)
        inserted == IF v_recording_id = NULL THEN db
                    ELSE [db EXCEPT !.recordings[v_recording_id] = NewRecording(in_user_id, t)]
        trg == trg_increment_usage_on_recording(inserted, t, in_user_id)
    IN IF msg # NoMessage
       THEN [db |-> db, recording_id |-> NULL, quota_ok |-> FALSE,
             error_message |-> msg, raised |-> ""]
       ELSE IF trg.raised # ""
       THEN [db |-> db, recording_id |-> NULL, quota_ok |-> FALSE,
             error_message |-> NoMessage, raised |-> trg.raised]
       ELSE [db |-> trg.db, recording_id |-> v_recording_id, quota_ok |-> TRUE,
             error_message |-> NoMessage, raised |-> ""]

(* ------------------------------------------------------------------ *)
(* PROCEDURE sp_complete_recording                                       *)
(* ------------------------------------------------------------------ *)
\* the INSERT ... SELECT over jsonb_array_elements(in_segments)
SegmentRows(in_recording_id, in_segments) ==
  LET RECURSIVE Rows(_)
      Rows(i) == IF i > Len(in_segments) THEN EmptyBag
                 ELSE SetToBag({[recording_id |-> in_recording_id,
                                 idx |-> in_segments[i].idx,
                                 start_ms |-> in_segments[i].start_ms,
                                 end_ms |-> in_segments[i].end_ms,
                                 text |-> in_segments[i].text]}) (+) Rows(i + 1)
  IN Rows(1)

\* the INSERT raises: text NOT NULL, or recording_id REFERENCES recordings(id)
InsertSegmentsRaises(db, in_recording_id, in_segments) ==
  \/ \E i \in 1 .. Len(in_segments) : in_segments[i].text = "NULL"
  \/ Len(in_segments) > 0 /\ db.recordings[in_recording_id] = NoRow

\* a variant of the body that rounds the seconds to the nearest instead of
\* discarding the remainder
complete_body_rounded(db, t, in_recording_id, in_duration_ms, in_segments) ==
  LET exists == db.recordings[in_recording_id] # NoRow
      v_user_id == IF exists THEN db.recordings[in_recording_id].user_id ELSE "NULL"
      db1 == IF exists
             THEN [db EXCEPT !.recordings[in_recording_id].status = "done",
                             !.recordings[in_recording_id].duration_ms = in_duration_ms]
             ELSE db
      db2 == [db1 EXCEPT !.segments = @ (+) SegmentRows(in_recording_id, in_segments)]
      v_duration_seconds == (in_duration_ms + 500) \div 1000
      db3 == IF v_user_id \in Users /\ ActiveSubscription(db2, t, v_user_id)
             THEN [db2 EXCEPT !.user_subscriptions[v_user_id].used_seconds =
                                 @ + v_duration_seconds]
             ELSE db2
  IN IF InsertSegmentsRaises(db1, in_recording_id, in_segments)
     THEN [db |-> db, raised |-> TRUE]
     ELSE [db |-> db3, raised |-> FALSE]

\* The body between BEGIN and EXCEPTION.
complete_body(db, t, in_recording_id, in_duration_ms, in_segments) ==
  LET exists == db.recordings[in_recording_id] # NoRow
      v_user_id == IF exists THEN db.recordings[in_recording_id].user_id ELSE "NULL"
      db1 == IF exists
             THEN [db EXCEPT !.recordings[in_recording_id].status = "done",
                             !.recordings[in_recording_id].duration_ms = in_duration_ms]
             ELSE db
      db2 == [db1 EXCEPT !.segments = @ (+) SegmentRows(in_recording_id, in_segments)]
      v_duration_seconds == in_duration_ms \div 1000
      db3 == IF v_user_id \in Users /\ ActiveSubscription(db2, t, v_user_id)
             THEN [db2 EXCEPT !.user_subscriptions[v_user_id].used_seconds =
                                 @ + v_duration_seconds]
             ELSE db2
  IN IF InsertSegmentsRaises(db1, in_recording_id, in_segments)
     THEN [db |-> db, raised |-> TRUE]
     ELSE [db |-> db3, raised |-> FALSE]

\* EXCEPTION WHEN OTHERS: the body's changes are undone, the handler marks
\* the recording failed and re-raises.
complete_handler(db, in_recording_id) ==
  IF db.recordings[in_recording_id] # NoRow
  THEN [db EXCEPT !.recordings[in_recording_id].status = "failed"]
  ELSE db

\* a variant whose statements are not undone on error and which charges first
sp_complete_recording_partial(db, t, in_recording_id, in_duration_ms, in_segments) ==
  LET body == complete_body(db, t, in_recording_id, in_duration_ms, in_segments)
      exists == db.recordings[in_recording_id] # NoRow
      owner == IF exists THEN db.recordings[in_recording_id].user_id ELSE "NULL"
      paid == IF owner \in Users /\ ActiveSubscription(db, t, owner)
              THEN [db EXCEPT !.user_subscriptions[owner].used_seconds =
                                 @ + (in_duration_ms \div 1000)]
              ELSE db
      handled == complete_handler(paid, in_recording_id)
  IN IF body.raised
     THEN [db |-> handled, raised |-> TRUE, aborted |-> handled]
     ELSE [db |-> body.db, raised |-> FALSE, aborted |-> body.db]

\* a variant whose error path commits the failed status and gives the job
\* slot back to the owner
sp_complete_recording_refund(db, t, in_recording_id, in_duration_ms, in_segments) ==
  LET body == complete_body(db, t, in_recording_id, in_duration_ms, in_segments)
      handled == complete_handler(db, in_recording_id)
      owner == IF db.recordings[in_recording_id] # NoRow
               THEN db.recordings[in_recording_id].user_id ELSE "NULL"
      refunded == IF owner \in Users /\ handled.user_subscriptions[owner].usage_count > 0
                  THEN [handled EXCEPT !.user_subscriptions[owner].usage_count = @ - 1]
                  ELSE handled
  IN IF body.raised
     THEN [db |-> refunded, raised |-> TRUE, aborted |-> refunded]
     ELSE [db |-> body.db, raised |-> FALSE, aborted |-> body.db]

\* a variant that charges only a recording reserved in the running cycle
sp_complete_recording_reserved_cycle(db, t, in_recording_id, in_duration_ms, in_segments) ==
  LET body == complete_body(db, t, in_recording_id, in_duration_ms, in_segments)
      handled == complete_handler(db, in_recording_id)
      exists == db.recordings[in_recording_id] # NoRow
      owner == IF exists THEN db.recordings[in_recording_id].user_id ELSE "NULL"
      earlier == /\ owner \in Users
                 /\ db.user_subscriptions[owner] # NoRow
                 /\ db.recordings[in_recording_id].created_at
                      < db.user_subscriptions[owner].cycle_start
      kept == IF earlier
              THEN [body.db EXCEPT !.user_subscriptions = db.user_subscriptions]
              ELSE body.db
  IN IF body.raised
     THEN [db |-> db, raised |-> TRUE, aborted |-> handled]
     ELSE [db |-> kept, raised |-> FALSE, aborted |-> kept]

\* a variant whose error path keeps the body's first UPDATE and commits the
\* handler's: the recording ends failed with the duration of the call
sp_complete_recording_no_savepoint(db, t, in_recording_id, in_duration_ms, in_segments) ==
  LET body == complete_body(db, t, in_recording_id, in_duration_ms, in_segments)
      db1 == IF db.recordings[in_recording_id] # NoRow
             THEN [db EXCEPT !.recordings[in_recording_id].status = "done",
                             !.recordings[in_recording_id].duration_ms = in_duration_ms]
             ELSE db
      handled == complete_handler(db1, in_recording_id)
  IN IF body.raised
     THEN [db |-> handled, raised |-> TRUE, aborted |-> handled]
     ELSE [db |-> body.db, raised |-> FALSE, aborted |-> body.db]

\* The CALL in a session of its own: the re-raised exception aborts the
\* calling transaction, which undoes the handler's UPDATE as well.
sp_complete_recording(db, t, in_recording_id, in_duration_ms, in_segments) ==
  LET body == complete_body(db, t, in_recording_id, in_duration_ms, in_segments)
      handled == complete_handler(db, in_recording_id)
  IN IF body.raised
     THEN [db |-> db, raised |-> TRUE, aborted |-> handled]
     ELSE [db |-> body.db, raised |-> FALSE, aborted |-> body.db]

(* ------------------------------------------------------------------ *)
(* PROCEDURE sp_reset_monthly_cycles                                     *)
(* ------------------------------------------------------------------ *)
sp_reset_monthly_cycles_strict(db, t) ==
  LET v_cycle_start == MonthStart(t)
      v_cycle_end == v_cycle_start + Period
  IN [db EXCEPT !.user_subscriptions =
        [u \in Users |->
           IF @[u] # NoRow /\ @[u].cycle_end < t
           THEN [@[u] EXCEPT !.cycle_start = v_cycle_start,
                             !.cycle_end = v_cycle_end,
                             !.usage_count = 0,
                             !.used_seconds = 0]
           ELSE @[u]]]

sp_reset_monthly_cycles_advance(db, t) ==
  [db EXCEPT !.user_subscriptions =
     [u \in Users |->
        IF @[u] # NoRow /\ @[u].cycle_end <= t
        THEN [@[u] EXCEPT !.cycle_start = @ + Period,
                          !.cycle_end = @ + Period,
                          !.usage_count = 0,
                          !.used_seconds = 0]
        ELSE @[u]]]

sp_reset_monthly_cycles(db, t) ==
  LET v_cycle_start == MonthStart(t)
      v_cycle_end == v_cycle_start + Period
  IN [db EXCEPT !.user_subscriptions =
        [u \in Users |->
           IF @[u] # NoRow /\ @[u].cycle_end <= t
           THEN [@[u] EXCEPT !.cycle_start = v_cycle_start,
                             !.cycle_end = v_cycle_end,
                             !.usage_count = 0,
                             !.used_seconds = 0]
           ELSE @[u]]]

(* ------------------------------------------------------------------ *)
(* FUNCTION sp_cleanup_old_recordings                                    *)
(* ------------------------------------------------------------------ *)
\* WHERE created_at < now() - retention AND status = 'done'
CleanupEligible(db, t, in_retention_days) ==
  {id \in RecIds : /\ db.recordings[id] # NoRow
                    /\ db.recordings[id].status = "done"
                    /\ db.recordings[id].created_at < t - in_retention_days}

\* The function counts the segments of the eligible recordings and then runs
\* WITH deleted_recs AS (DELETE FROM recordings WHERE ... LIMIT in_batch_size
\* RETURNING 1).  PostgreSQL's DELETE has no LIMIT clause: the statement is a
\* syntax error, so no call deletes a row; the call ends with the error.
sp_cleanup_old_recordings(db, t, in_retention_days, in_batch_size) ==
  [db |-> db, raised |-> "syntax_error", deleted_recordings |-> 0,
   deleted_segments |-> 0]

(* ------------------------------------------------------------------ *)
(* PROCEDURE sp_change_user_plan                                         *)
(* ------------------------------------------------------------------ *)
\* a variant that resets the counters on every plan change
sp_change_user_plan_always_reset(db, t, in_user_id, in_new_plan_code, in_prorate) ==
  IF in_new_plan_code \notin PlanCodes
  THEN [db |-> db, success |-> FALSE, message |-> "Plan not found"]
  ELSE IF ~ActiveSubscription(db, t, in_user_id)
  THEN [db |-> db, success |-> FALSE, message |-> "No active subscription found"]
  ELSE IF db.user_subscriptions[in_user_id].plan_id = in_new_plan_code
  THEN [db |-> db, success |-> FALSE, message |-> "Already on this plan"]
  ELSE [db |-> [db EXCEPT !.user_subscriptions[in_user_id].plan_id = in_new_plan_code,
                          !.user_subscriptions[in_user_id].usage_count = 0,
                          !.user_subscriptions[in_user_id].used_seconds = 0],
        success |-> TRUE, message |-> "Successfully changed plan"]

sp_change_user_plan(db, t, in_user_id, in_new_plan_code, in_prorate) ==
  IF in_new_plan_code \notin PlanCodes
  THEN [db |-> db, success |-> FALSE, message |-> "Plan not found"]
  ELSE IF ~ActiveSubscription(db, t, in_user_id)
  THEN [db |-> db, success |-> FALSE, message |-> "No active subscription found"]
  ELSE IF db.user_subscriptions[in_user_id].plan_id = in_new_plan_code
  THEN [db |-> db, success |-> FALSE, message |-> "Already on this plan"]
  ELSE
    LET db1 == [db EXCEPT !.user_subscriptions[in_user_id].plan_id = in_new_plan_code]
        db2 == IF in_prorate
               THEN [db1 EXCEPT !.user_subscriptions[in_user_id].usage_count = 0,
                                !.user_subscriptions[in_user_id].used_seconds = 0]
               ELSE db1
    IN [db |-> db2, success |-> TRUE, message |-> "Successfully changed plan"]

(* ------------------------------------------------------------------ *)
(* PROCEDURE sp_register_user                                            *)
(* ------------------------------------------------------------------ *)
\* The plan snapshot written into a new subscription row (copy-on-subscribe).
apply_plan_snapshot(row, plan) ==
  [row EXCEPT !.plan_monthly_usage_limit_snapshot = plan.monthly_usage_limit,
              !.plan_monthly_minutes_snapshot = plan.monthly_minutes]

\* INSERT INTO user_subscriptions (user_id, plan_id) with the column defaults
NewSubscription(v_plan_id, t) ==
  [plan_id |-> v_plan_id,
   plan_monthly_usage_limit_snapshot |-> 0,
   plan_monthly_minutes_snapshot |-> 0,
   cycle_start |-> MonthStart(t),
   cycle_end |-> MonthStart(t) + Period,
   usage_count |-> 0,
   used_seconds |-> 0]

\* users.email is unique and user_subscriptions.user_id is UNIQUE: a second
\* registration of the same user raises, and so does an unknown plan code.
\* INSERT INTO users ... RETURNING id; INSERT INTO user_profiles (user_id, name).
\* in_user stands for the email and user_name given and for the id of the row.
insert_user_and_profile(db, in_user) ==
  IF in_user \in db.users
  THEN [db |-> db, raised |-> "unique_violation"]
  ELSE [db |-> [db EXCEPT !.users = @ \cup {in_user},
                          !.user_profiles = @ \cup {in_user}],
        raised |-> ""]

\* INSERT INTO user_subscriptions (user_id, plan_id); plan_id is NOT NULL and
\* references plans, user_id is UNIQUE
insert_subscription(db, t, in_user, v_plan_id) ==
  IF v_plan_id \notin PlanCodes
  THEN [db |-> db, raised |-> "not_null_violation"]
  ELSE IF db.user_subscriptions[in_user] # NoRow
  THEN [db |-> db, raised |-> "unique_violation"]
  ELSE [db |-> [db EXCEPT !.user_subscriptions[in_user] =
                  apply_plan_snapshot(NewSubscription(v_plan_id, t),
                                      db.plans[v_plan_id])],
        raised |-> ""]

\* the three inserts sent as separate statements, each committed on its own
sp_register_user_separate_inserts(db, t, in_user, in_default_plan_code) ==
  LET u == insert_user_and_profile(db, in_user)
  IN IF u.raised # "" THEN u
     ELSE insert_subscription(u.db, t, in_user, in_default_plan_code)

\* One CALL is one statement: a RAISE (the procedure's own, or a constraint
\* violation re-raised by WHEN OTHERS THEN RAISE) undoes every insert of the call.
sp_register_user(db, t, in_user, in_default_plan_code) ==
  IF in_default_plan_code \notin PlanCodes
  THEN [db |-> db, raised |-> "default plan not found"]
  ELSE LET u == insert_user_and_profile(db, in_user)
           s == insert_subscription(u.db, t, in_user, in_default_plan_code)
       IN IF u.raised # "" THEN [db |-> db, raised |-> u.raised]
          ELSE IF s.raised # "" THEN [db |-> db, raised |-> s.raised]
          ELSE s

(* ------------------------------------------------------------------ *)
(* Operations behind the gateway callbacks and the maintenance jobs      *)
(* ------------------------------------------------------------------ *)
\* UpdateStatus(recording_id, FAILED): applied only to a recording that
\* exists and is still processing; seconds are not charged.
update_status_failed(db, id) ==
  IF db.recordings[id] # NoRow /\ db.recordings[id].status = "processing"
  THEN [db |-> [db EXCEPT !.recordings[id].status = "failed"], applied |-> TRUE]
  ELSE [db |-> db, applied |-> FALSE]

\* The timeout sweep: every recording still processing after Timeout is failed.
Stuck(db, t, id) ==
  /\ db.recordings[id] # NoRow
  /\ db.recordings[id].status = "processing"
  /\ t - db.recordings[id].created_at >= Timeout

sweep_stuck_recordings(db, t) ==
  [db EXCEPT !.recordings =
     [id \in RecIds |-> IF Stuck(db, t, id)
                        THEN [@[id] EXCEPT !.status = "failed"]
                        ELSE @[id]]]

\* Soft delete of a plan; the default plan cannot be deactivated.
deactivate_plan(db, code) ==
  IF db.plans[code].is_default
  THEN db
  ELSE [db EXCEPT !.plans[code].is_active = FALSE]

\* DELETE /recordings/{id}: the row goes, and ON DELETE CASCADE removes its
\* segments; the subscription counters are not touched.
delete_recording(db, id) ==
  IF db.recordings[id] = NoRow
  THEN [db |-> db, found |-> FALSE]
  ELSE [db |-> [db EXCEPT !.recordings[id] = NoRow,
                          !.segments = [s \in BagToSet(@) \ SegmentsOf(@, id) |-> @[s]]],
        found |-> TRUE]

(* ------------------------------------------------------------------ *)
(* State machine: every call is one transaction                          *)
(* ------------------------------------------------------------------ *)
NoSession == [p \in Procs |-> "idle"]

\* a call of upload() that has not started: no step has run
NoUpload == [at |-> "idle", create |-> "none", file |-> "none", mark |-> "none",
             markCalls |-> 0, failed |-> "none"]
ClientInit ==
  /\ uploads = [c \in UploadCalls |-> NoUpload]
  /\ isRecording = FALSE
  /\ mediaStreamRef = NULL
  /\ audioContextRef = NULL
  /\ processorRef = NULL
  /\ websocketRef = NULL
  /\ startRecordingAt = [c \in StartCalls |-> "idle"]
  /\ streams = [c \in StartCalls |-> "none"]
  /\ contexts = [c \in StartCalls |-> "none"]
  /\ worklets = [c \in StartCalls |-> "none"]
  /\ sockets = [c \in StartCalls |-> "none"]

\* the seeded database: the plans and no user
EmptyDB ==
  [plans |-> SeedPlans,
   user_subscriptions |-> [u \in Users |-> NoRow],
   recordings |-> [i \in RecIds |-> NoRow],
   segments |-> EmptyBag,
   users |-> {},
   user_profiles |-> {}]

Init ==
  /\ now = 0
  /\ plans = SeedPlans
  /\ user_subscriptions = [u \in Users |-> NoRow]
  /\ users = {}
  /\ user_profiles = {}
  /\ recordings = [i \in RecIds |-> NoRow]
  /\ segments = EmptyBag
  /\ last = [op |-> "Init", out |-> ""]
  /\ charged = {}
  /\ deleted = {}
  /\ pc = NoSession
  /\ v_sub = [p \in Procs |-> NoRow]
  /\ lock = 0
  /\ outcome = [p \in Procs |-> ""]
  /\ ClientInit

Commit(db) ==
  /\ plans' = db.plans
  /\ user_subscriptions' = db.user_subscriptions
  /\ recordings' = db.recordings
  /\ segments' = db.segments
  /\ users' = db.users
  /\ user_profiles' = db.user_profiles

Tick ==
  /\ now < MaxTime
  /\ now' = now + 1
  /\ last' = [op |-> "Tick", out |-> ""]
  /\ UNCHANGED <<plans, user_subscriptions, recordings, segments, users, user_profiles,
               charged, deleted, sessVars, clientVars>>

RegisterUser(u, code) ==
  LET r == sp_register_user(DB, now, u, code)
  IN /\ Commit(r.db)
     /\ last' = [op |-> "RegisterUser", out |-> r.raised]
     /\ UNCHANGED <<now, charged, deleted, sessVars, clientVars>>

CheckAndReserve(u) ==
  LET r == sp_check_quota_and_create_recording(DB, now, u)
  IN /\ r.quota_ok => r.recording_id \in MainRecIds \ deleted
     /\ Commit(r.db)
     /\ last' = [op |-> "CheckAndReserve",
                 out |-> IF r.raised # "" THEN r.raised ELSE r.error_message.text]
     /\ UNCHANGED <<now, charged, deleted, sessVars, clientVars>>

UsedSeconds(db, u) ==
  IF db.user_subscriptions[u] = NoRow THEN 0 ELSE db.user_subscriptions[u].used_seconds

Complete(id, duration_ms, segs) ==
  LET r == sp_complete_recording(DB, now, id, duration_ms, segs)
  IN /\ BagCardinality(r.db.segments) <= MaxSegments
     /\ \A u \in Users : UsedSeconds(r.db, u) <= MaxUsedSeconds
     /\ Commit(r.db)
     /\ last' = [op |-> "Complete", out |-> IF r.raised THEN "raised" ELSE ""]
     /\ charged' = IF \E u \in Users : UsedSeconds(r.db, u) > UsedSeconds(DB, u)
                   THEN charged \cup {id} ELSE charged
     /\ UNCHANGED <<now, deleted, sessVars, clientVars>>

Fail(id) ==
  LET r == update_status_failed(DB, id)
  IN /\ Commit(r.db)
     /\ last' = [op |-> "Fail", out |-> IF r.applied THEN "" ELSE "discarded"]
     /\ UNCHANGED <<now, charged, deleted, sessVars, clientVars>>

Sweep ==
  /\ Commit(sweep_stuck_recordings(DB, now))
  /\ last' = [op |-> "Sweep", out |-> ""]
  /\ UNCHANGED <<now, charged, deleted, sessVars, clientVars>>

ChangePlan(u, code, prorate) ==
  LET r == sp_change_user_plan(DB, now, u, code, prorate)
  IN /\ Commit(r.db)
     /\ last' = [op |-> "ChangePlan", out |-> r.message]
     /\ UNCHANGED <<now, charged, deleted, sessVars, clientVars>>

DeactivatePlan(code) ==
  /\ Commit(deactivate_plan(DB, code))
  /\ last' = [op |-> "DeactivatePlan", out |-> ""]
  /\ UNCHANGED <<now, charged, deleted, sessVars, clientVars>>

Rollover ==
  /\ Commit(sp_reset_monthly_cycles(DB, now))
  /\ last' = [op |-> "Rollover", out |-> ""]
  /\ UNCHANGED <<now, charged, deleted, sessVars, clientVars>>

Cleanup ==
  LET r == sp_cleanup_old_recordings(DB, now, Retention, BatchSize)
  IN /\ Commit(r.db)
     /\ last' = [op |-> "Cleanup", out |-> r.raised]
     /\ UNCHANGED <<now, charged, deleted, sessVars, clientVars>>

DeleteRecording(id) ==
  LET r == delete_recording(DB, id)
  IN /\ Commit(r.db)
     /\ last' = [op |-> "DeleteRecording", out |-> IF r.found THEN "" ELSE "not found"]
     /\ deleted' = IF r.found THEN deleted \cup {id} ELSE deleted
     /\ UNCHANGED <<now, charged, sessVars, clientVars>>

Next ==
  \/ Tick
  \/ \E u \in MainUsers, code \in PlanCodes \cup {"NOPE"} : RegisterUser(u, code)
  \/ \E u \in MainUsers : CheckAndReserve(u)
  \/ \E id \in MainRecIds, d \in DurationsMs, b \in Batches : Complete(id, d, b)
  \/ \E id \in MainRecIds : Fail(id)
  \/ Sweep
  \/ \E u \in MainUsers, code \in PlanCodes \cup {"NOPE"}, prorate \in BOOLEAN :
       ChangePlan(u, code, prorate)
  \/ \E code \in PlanCodes : DeactivatePlan(code)
  \/ Rollover

Spec == Init /\ [][Next]_vars

(* ------------------------------------------------------------------ *)
(* Two subscriptions with different billing cycles                       *)
(* ------------------------------------------------------------------ *)
NextCycles ==
  \/ Tick
  \/ \E u \in Users, code \in PlanCodes : RegisterUser(u, code)
  \/ \E u \in Users : CheckAndReserve(u)
  \/ \E id \in MainRecIds : Complete(id, 60500, <<SegA>>)
  \/ Rollover

SpecCycles == Init /\ [][NextCycles]_vars

(* ------------------------------------------------------------------ *)
(* Accounts: registrations of two users, with known and unknown plans    *)
(* ------------------------------------------------------------------ *)
NextAccounts ==
  \/ Tick
  \/ \E u \in Users, code \in PlanCodes \cup {"NOPE"} : RegisterUser(u, code)
  \/ \E u \in Users : CheckAndReserve(u)
  \/ \E u \in Users, code \in PlanCodes, prorate \in BOOLEAN : ChangePlan(u, code, prorate)

SpecAccounts == Init /\ [][NextAccounts]_vars

(* ------------------------------------------------------------------ *)
(* One user's counters: creations, deletions and the two kinds of reset  *)
(* ------------------------------------------------------------------ *)
NextUsage ==
  \/ Tick
  \/ RegisterUser("u1", "PREMIUM")
  \/ CheckAndReserve("u1")
  \/ \E id \in MainRecIds : Complete(id, 60500, <<SegA>>)
  \/ \E id \in MainRecIds : DeleteRecording(id)
  \/ Cleanup
  \/ Rollover
  \/ \E prorate \in BOOLEAN : ChangePlan("u1", "PREMIUM", prorate)

SpecUsage == Init /\ [][NextUsage]_vars

(* ------------------------------------------------------------------ *)
(* One user's jobs: reservation, the callbacks, the sweep and deletion   *)
(* ------------------------------------------------------------------ *)
NextJobs ==
  \/ Tick
  \/ \E code \in PlanCodes : RegisterUser("u1", code)
  \/ CheckAndReserve("u1")
  \/ \E id \in MainRecIds, d \in DurationsMs, b \in Batches \cup {MixedBatch} :
       Complete(id, d, b)
  \/ \E id \in MainRecIds : Fail(id)
  \/ Sweep
  \/ \E id \in MainRecIds : DeleteRecording(id)
  \/ Cleanup

SpecJobs == Init /\ [][NextJobs]_vars

(* ------------------------------------------------------------------ *)
(* One user's plan changes between reservations and completions          *)
(* ------------------------------------------------------------------ *)
NextPlans ==
  \/ Tick
  \/ \E code \in PlanCodes : RegisterUser("u1", code)
  \/ CheckAndReserve("u1")
  \/ \E id \in MainRecIds : Complete(id, 60500, <<SegA>>)
  \/ \E code \in PlanCodes \cup {"NOPE"}, prorate \in BOOLEAN :
       ChangePlan("u1", code, prorate)
  \/ \E code \in PlanCodes : DeactivatePlan(code)

SpecPlans == Init /\ [][NextPlans]_vars

(* ------------------------------------------------------------------ *)
(* Concurrent sessions of sp_check_quota_and_create_recording, one       *)
(* statement at a time, under READ COMMITTED.  The trigger's             *)
(* SELECT ... FOR UPDATE holds the subscription row lock until the       *)
(* session commits or aborts.                                            *)
(* ------------------------------------------------------------------ *)
RaceUser == "u1"

InitRace ==
  /\ now = 0
  /\ plans = SeedPlans
  /\ \E code \in PlanCodes :
       user_subscriptions =
         sp_register_user(EmptyDB, 0, RaceUser, code).db.user_subscriptions
  /\ users = {RaceUser}
  /\ user_profiles = {RaceUser}
  /\ recordings = [i \in RecIds |-> NoRow]
  /\ segments = EmptyBag
  /\ last = [op |-> "Init", out |-> ""]
  /\ charged = {}
  /\ deleted = {}
  /\ pc = [p \in Procs |-> "select_subscription"]
  /\ v_sub = [p \in Procs |-> NoRow]
  /\ lock = 0
  /\ outcome = [p \in Procs |-> ""]
  /\ ClientInit

dbVars == <<now, plans, user_subscriptions, recordings, segments, users, user_profiles,
           last, charged, deleted>>

\* SELECT * INTO v_subscription ...; IF NOT FOUND THEN RETURN
SelectSubscription(p) ==
  /\ pc[p] = "select_subscription"
  /\ IF ActiveSubscription(DB, now, RaceUser)
     THEN /\ v_sub' = [v_sub EXCEPT ![p] = user_subscriptions[RaceUser]]
          /\ pc' = [pc EXCEPT ![p] = "check_quota"]
          /\ UNCHANGED outcome
     ELSE /\ outcome' = [outcome EXCEPT ![p] = "No active subscription found"]
          /\ pc' = [pc EXCEPT ![p] = "done"]
          /\ UNCHANGED v_sub
  /\ UNCHANGED <<dbVars, lock, clientVars>>

\* SELECT * INTO v_plan ...; the two IFs on the rows read
CheckQuota(p) ==
  /\ pc[p] = "check_quota"
  /\ LET msg == quota_check(v_sub[p], plans[v_sub[p].plan_id])
     IN IF msg # NoMessage
        THEN /\ outcome' = [outcome EXCEPT ![p] = msg.text]
             /\ pc' = [pc EXCEPT ![p] = "done"]
        ELSE /\ pc' = [pc EXCEPT ![p] = "insert"]
             /\ UNCHANGED outcome
  /\ UNCHANGED <<dbVars, v_sub, lock, clientVars>>

\* INSERT INTO recordings fires the trigger: its SELECT ... FOR UPDATE waits
\* for the row lock, then reads the committed row; a RAISE aborts the session.
InsertRecording(p) ==
  /\ pc[p] = "insert"
  /\ lock = 0
  /\ LET r == trg_check_and_increment(user_subscriptions[RaceUser],
                                      ActiveSubscription(DB, now, RaceUser))
     IN IF r.raised # ""
        THEN /\ outcome' = [outcome EXCEPT ![p] = r.raised]
             /\ pc' = [pc EXCEPT ![p] = "done"]
             /\ UNCHANGED <<v_sub, lock>>
        ELSE /\ v_sub' = [v_sub EXCEPT ![p] = r.row]
             /\ lock' = p
             /\ pc' = [pc EXCEPT ![p] = "commit"]
             /\ UNCHANGED outcome
  /\ UNCHANGED <<dbVars, clientVars>>

\* RETURN QUERY SELECT v_recording_id, TRUE, ''; the caller's COMMIT
CommitSession(p) ==
  /\ pc[p] = "commit"
  /\ lock = p
  /\ NewRecordingId(recordings) # NULL
  /\ user_subscriptions' = [user_subscriptions EXCEPT ![RaceUser] = v_sub[p]]
  /\ recordings' = [recordings EXCEPT ![NewRecordingId(recordings)] =
                      NewRecording(RaceUser, now)]
  /\ lock' = 0
  /\ outcome' = [outcome EXCEPT ![p] = "created"]
  /\ pc' = [pc EXCEPT ![p] = "done"]
  /\ UNCHANGED <<now, plans, segments, users, user_profiles, last, charged, deleted,
               v_sub, clientVars>>

NextRace ==
  \/ \E p \in Procs : SelectSubscription(p)
  \/ \E p \in Procs : CheckQuota(p)
  \/ \E p \in Procs : InsertRecording(p)
  \/ \E p \in Procs : CommitSession(p)

SpecRace == InitRace /\ [][NextRace]_vars

(* ------------------------------------------------------------------ *)
(* Browser: useCompleteUpload().upload                                   *)
(* One async function; every await is a step that resolves or rejects.   *)
(* Mutations are configured with retry: 0, so a rejected request is not  *)
(* sent again.                                                           *)
(* ------------------------------------------------------------------ *)
\* where the function continues after an await inside the try block:
\* at the next statement when the promise resolved, in catch when it rejected
after_await(ok, next) == IF ok THEN next ELSE "catch"

\* the same with the rejection of the file upload swallowed
after_upload_file_swallowed(ok, next) == next
after_upload_file(ok, next) == after_await(ok, next)

\* upload(file, language, ...) is called: enters the try block
StartUpload(c) ==
  /\ uploads[c].at = "idle"
  /\ uploads' = [uploads EXCEPT ![c].at = "create"]
  /\ UNCHANGED <<dbVars, sessVars, pageVars>>

\* const uploadData = await uploadRecording.mutateAsync({language, name})
CreateStep(c, ok) ==
  /\ uploads[c].at = "create"
  /\ uploads' = [uploads EXCEPT ![c].create = IF ok THEN "ok" ELSE "failed",
                                ![c].failed = IF ok THEN @ ELSE "create",
                                ![c].at = after_await(ok, "cb_create")]
  /\ UNCHANGED <<dbVars, sessVars, pageVars>>

\* options?.onStepComplete?.(step): the caller's callback may throw
StepCallback(c, from, next, ok) ==
  /\ uploads[c].at = from
  /\ uploads' = [uploads EXCEPT ![c].failed = IF ok THEN @ ELSE from,
                                ![c].at = after_await(ok, next)]
  /\ UNCHANGED <<dbVars, sessVars, pageVars>>

\* await uploadFile.mutateAsync({uploadUrl, fields, file, onProgress})
UploadFileStep(c, ok) ==
  /\ uploads[c].at = "upload"
  /\ uploads' = [uploads EXCEPT ![c].file = IF ok THEN "ok" ELSE "failed",
                                ![c].failed = IF ok THEN @ ELSE "upload",
                                ![c].at = after_upload_file(ok, "cb_upload")]
  /\ UNCHANGED <<dbVars, sessVars, pageVars>>

\* await new Promise((resolve) => setTimeout(resolve, 1000))
WaitStep(c) ==
  /\ uploads[c].at = "wait"
  /\ uploads' = [uploads EXCEPT ![c].at = "mark"]
  /\ UNCHANGED <<dbVars, sessVars, pageVars>>

\* const completedData = await markCompleted.mutateAsync(uploadData.recording_id)
MarkCompletedStep(c, ok) ==
  /\ uploads[c].at = "mark"
  /\ uploads' = [uploads EXCEPT ![c].mark = IF ok THEN "ok" ELSE "failed",
                                ![c].markCalls = @ + 1,
                                ![c].failed = IF ok THEN @ ELSE "mark",
                                ![c].at = after_await(ok, "cb_queue")]
  /\ UNCHANGED <<dbVars, sessVars, pageVars>>

\* return {recording_id, job_id, status}
ReturnStep(c) ==
  /\ uploads[c].at = "return"
  /\ uploads' = [uploads EXCEPT ![c].at = "returned"]
  /\ UNCHANGED <<dbVars, sessVars, pageVars>>

\* catch (error) { ...; throw error; }
CatchStep(c) ==
  /\ uploads[c].at = "catch"
  /\ uploads' = [uploads EXCEPT ![c].at = "thrown"]
  /\ UNCHANGED <<dbVars, sessVars, pageVars>>

NextUpload ==
  \/ \E c \in UploadCalls : StartUpload(c)
  \/ \E c \in UploadCalls, ok \in BOOLEAN : CreateStep(c, ok)
  \/ \E c \in UploadCalls, ok \in BOOLEAN : StepCallback(c, "cb_create", "upload", ok)
  \/ \E c \in UploadCalls, ok \in BOOLEAN : UploadFileStep(c, ok)
  \/ \E c \in UploadCalls, ok \in BOOLEAN : StepCallback(c, "cb_upload", "wait", ok)
  \/ \E c \in UploadCalls : WaitStep(c)
  \/ \E c \in UploadCalls, ok \in BOOLEAN : MarkCompletedStep(c, ok)
  \/ \E c \in UploadCalls, ok \in BOOLEAN : StepCallback(c, "cb_queue", "return", ok)
  \/ \E c \in UploadCalls : ReturnStep(c)
  \/ \E c \in UploadCalls : CatchStep(c)

SpecUpload == Init /\ [][NextUpload]_vars

(* ------------------------------------------------------------------ *)
(* Browser: SpeechToTextPage, startRecording and stopRecording           *)
(* Handlers run to completion; startRecording is suspended at its two    *)
(* awaits, where clicks and socket callbacks can run.                    *)
(* ------------------------------------------------------------------ *)
Page ==
  [isRecording |-> isRecording, mediaStreamRef |-> mediaStreamRef,
   audioContextRef |-> audioContextRef, processorRef |-> processorRef,
   websocketRef |-> websocketRef, streams |-> streams, contexts |-> contexts,
   worklets |-> worklets, sockets |-> sockets]

SetPage(p) ==
  /\ isRecording' = p.isRecording
  /\ mediaStreamRef' = p.mediaStreamRef
  /\ audioContextRef' = p.audioContextRef
  /\ processorRef' = p.processorRef
  /\ websocketRef' = p.websocketRef
  /\ streams' = p.streams
  /\ contexts' = p.contexts
  /\ worklets' = p.worklets
  /\ sockets' = p.sockets

\* stopRecording(): each resource is released only through its ref, and the
\* socket only when its readyState is OPEN (CLOSE is sent, the server closes)
stopRecording(p) ==
  LET ws == p.websocketRef
      wsOpen == ws # NULL /\ p.sockets[ws] = "OPEN"
  IN [p EXCEPT
        !.isRecording = FALSE,
        !.streams = IF p.mediaStreamRef # NULL
                    THEN [@ EXCEPT ![p.mediaStreamRef] = "stopped"] ELSE @,
        !.mediaStreamRef = NULL,
        !.sockets = IF wsOpen THEN [@ EXCEPT ![ws] = "CLOSE_SENT"] ELSE @,
        !.websocketRef = IF wsOpen THEN NULL ELSE @,
        !.contexts = IF p.audioContextRef # NULL
                     THEN [@ EXCEPT ![p.audioContextRef] = "closed"] ELSE @,
        !.audioContextRef = NULL,
        !.worklets = IF p.processorRef # NULL
                     THEN [@ EXCEPT ![p.processorRef] = "disconnected"] ELSE @,
        !.processorRef = NULL]

\* the button shows Start Recording while isRecording is false:
\* startRecording runs up to its first await
ClickStart(c) ==
  /\ ~isRecording
  /\ startRecordingAt[c] = "idle"
  /\ \A d \in StartCalls : d < c => startRecordingAt[d] # "idle"
  /\ SetPage([Page EXCEPT !.isRecording = TRUE])
  /\ startRecordingAt' = [startRecordingAt EXCEPT ![c] = "getUserMedia"]
  /\ UNCHANGED <<dbVars, sessVars, uploads>>

\* the button shows Stop Recording while isRecording is true
ClickStop ==
  /\ isRecording
  /\ SetPage(stopRecording(Page))
  /\ UNCHANGED <<dbVars, sessVars, uploads, startRecordingAt>>

\* getUserMedia resolves: the stream and a new AudioContext are stored in the
\* refs, addModule is called on that context
GetUserMediaResolves(c) ==
  /\ startRecordingAt[c] = "getUserMedia"
  /\ SetPage([Page EXCEPT !.streams[c] = "live", !.mediaStreamRef = c,
                          !.contexts[c] = "running", !.audioContextRef = c])
  /\ startRecordingAt' = [startRecordingAt EXCEPT ![c] = "addModule"]
  /\ UNCHANGED <<dbVars, sessVars, uploads>>

\* an await rejects: catch (err) { setError(...); stopRecording(); }
AwaitRejects(c) ==
  /\ startRecordingAt[c] \in {"getUserMedia", "addModule"}
  /\ SetPage(stopRecording(Page))
  /\ startRecordingAt' = [startRecordingAt EXCEPT ![c] = "done"]
  /\ UNCHANGED <<dbVars, sessVars, uploads>>

\* addModule resolves and the rest of startRecording runs.  The source and the
\* worklet node are made from the refs as they are now: a null ref, or a
\* context whose module is not loaded, throws into the catch block.
AddModuleResolves(c) ==
  /\ startRecordingAt[c] = "addModule"
  /\ LET loaded == [Page EXCEPT !.contexts[c] = IF @ = "running" THEN "loaded" ELSE @]
         ctx == loaded.audioContextRef
     IN IF ctx = NULL \/ loaded.mediaStreamRef = NULL
        THEN SetPage(stopRecording(loaded))
        ELSE IF loaded.contexts[ctx] # "loaded"
        THEN SetPage(stopRecording(loaded))
        ELSE SetPage([loaded EXCEPT !.worklets[c] = "connected",
                                    !.sockets[c] = "CONNECTING",
                                    !.websocketRef = c,
                                    !.processorRef = c])
  /\ startRecordingAt' = [startRecordingAt EXCEPT ![c] = "done"]
  /\ UNCHANGED <<dbVars, sessVars, uploads>>

\* websocket.onopen: sends the target language, changes no state of the page
SocketOpens(c) ==
  /\ sockets[c] = "CONNECTING"
  /\ SetPage([Page EXCEPT !.sockets[c] = "OPEN"])
  /\ UNCHANGED <<dbVars, sessVars, uploads, startRecordingAt>>

\* websocket.onclose = () => { stopRecording(); }
SocketCloses(c) ==
  /\ sockets[c] \in {"CONNECTING", "OPEN", "CLOSE_SENT"}
  /\ SetPage(stopRecording([Page EXCEPT !.sockets[c] = "CLOSED"]))
  /\ UNCHANGED <<dbVars, sessVars, uploads, startRecordingAt>>

NextPage ==
  \/ \E c \in StartCalls : ClickStart(c)
  \/ ClickStop
  \/ \E c \in StartCalls : GetUserMediaResolves(c)
  \/ \E c \in StartCalls : AwaitRejects(c)
  \/ \E c \in StartCalls : AddModuleResolves(c)
  \/ \E c \in StartCalls : SocketOpens(c)
  \/ \E c \in StartCalls : SocketCloses(c)

SpecPage == Init /\ [][NextPage]_vars

(* ------------------------------------------------------------------ *)
(* Properties                                                            *)
(* ------------------------------------------------------------------ *)
Registered(u) == user_subscriptions[u] # NoRow
RecordingsOf(u) == {i \in RecIds : recordings[i] # NoRow /\ recordings[i].user_id = u}
JobAllowance(u) == user_subscriptions[u].plan_monthly_usage_limit_snapshot
SecondsAllowance(u) == user_subscriptions[u].plan_monthly_minutes_snapshot * 60
RaceDone == \A p \in Procs : pc[p] = "done"
Created == {p \in Procs : outcome[p] = "created"}
\* the two ways a call is refused for the job quota: the function's message
\* and the trigger's check_violation
JobQuotaExceeded == {"Monthly usage limit reached", "check_violation"}

C2_IdempotentCompletion ==
  \A id \in MainRecIds, d \in DurationsMs, b \in Batches :
    recordings[id] # NoRow =>
      LET once == sp_complete_recording(DB, now, id, d, b).db
          twice == sp_complete_recording(once, now, id, d, b).db
      IN /\ SegmentCount(twice.segments, id) = SegmentCount(once.segments, id)
         /\ twice.user_subscriptions = once.user_subscriptions

\* C3: a step that moves a recording to failed never increases used_seconds
\* of any subscription, and no failed recording has had seconds charged.
C3_NoChargeOnFailure ==
  /\ [](\A id \in RecIds :
          (recordings[id] # NoRow /\ recordings[id].status = "failed")
            => id \notin charged)
  /\ [][\A id \in RecIds :
          (/\ recordings[id] # NoRow
           /\ recordings[id].status # "failed"
           /\ recordings'[id] # NoRow
           /\ recordings'[id].status = "failed")
            => \A u \in Users :
                 Registered(u) =>
                   user_subscriptions'[u].used_seconds
                     <= user_subscriptions[u].used_seconds]_vars

\* a recording failed by the callback or the sweep while another recording of
\* the same user has been charged
C3_Witness ==
  /\ last.op \in {"Fail", "Sweep"}
  /\ \E id \in RecIds :
       /\ recordings[id] # NoRow
       /\ recordings[id].status = "failed"
       /\ user_subscriptions[recordings[id].user_id].used_seconds > 0

C5_SecondsInvariant ==
  \A u \in Users :
    Registered(u) => user_subscriptions[u].used_seconds <= SecondsAllowance(u)

\* C6: a run of sp_reset_monthly_cycles at time now leaves every subscription
\* whose cycle_end was at or before now with usage_count 0, used_seconds 0 and
\* cycle_end after now, and every other subscription unchanged.
C6_RolloverCorrectness ==
  [][last'.op = "Rollover" =>
       \A u \in Users :
         Registered(u) =>
           IF user_subscriptions[u].cycle_end <= now
           THEN /\ user_subscriptions'[u].usage_count = 0
                /\ user_subscriptions'[u].used_seconds = 0
                /\ user_subscriptions'[u].cycle_end > now
           ELSE user_subscriptions'[u] = user_subscriptions[u]]_vars

\* the rollover has reset a subscription that has a recording from an earlier
\* cycle, next to a subscription in its cycle whose counters it left alone
C6_Witness ==
  /\ last.op = "Rollover"
  /\ \E u, v \in Users :
       /\ Registered(u) /\ Registered(v)
       /\ user_subscriptions[u].usage_count = 0
       /\ user_subscriptions[u].cycle_end > now
       /\ \E i \in RecordingsOf(u) :
            recordings[i].created_at < user_subscriptions[u].cycle_start
       /\ user_subscriptions[v].usage_count > 0

\* C7: a run of sp_reset_monthly_cycles right after another run changes no
\* subscription.
C7_RolloverIdempotent ==
  [][(last.op = "Rollover" /\ last'.op = "Rollover")
       => user_subscriptions' = user_subscriptions]_vars

\* the rollover has just reset a subscription that had skipped a whole cycle
\* and had recordings made before the reset
C7_Witness ==
  /\ last.op = "Rollover"
  /\ \E u \in Users :
       /\ Registered(u)
       /\ user_subscriptions[u].cycle_start = MonthStart(now)
       /\ \E i \in RecordingsOf(u) :
            recordings[i].created_at + Period < user_subscriptions[u].cycle_start
       /\ sp_reset_monthly_cycles(DB, now) = DB

\* C8: for a subscription whose plan has been deactivated, every answer of
\* sp_check_quota_and_create_recording is the one the snapshotted allowances
\* give: a recording is created only below both snapshot limits, and each
\* refusal is for a snapshot limit that is reached.
C8_SnapshotResilience ==
  \A u \in MainUsers :
    (/\ Registered(u)
     /\ ~plans[user_subscriptions[u].plan_id].is_active
     /\ last.op = "CheckAndReserve")
      => /\ last.out = "" =>
              /\ user_subscriptions[u].usage_count - 1 < JobAllowance(u)
              /\ user_subscriptions[u].used_seconds < SecondsAllowance(u)
         /\ last.out = "Monthly usage limit reached" =>
              user_subscriptions[u].usage_count >= JobAllowance(u)
         /\ last.out = "Monthly minutes limit reached" =>
              user_subscriptions[u].used_seconds >= SecondsAllowance(u)

C10_SweepWinsOverLateComplete ==
  [][\A id \in MainRecIds :
       (/\ last.op = "Sweep"
        /\ recordings[id] # NoRow
        /\ recordings[id].status = "failed"
        /\ last'.op = "Complete")
         => /\ recordings'[id] = recordings[id]
            /\ SegmentCount(segments', id) = SegmentCount(segments, id)
            /\ (id \in charged') = (id \in charged)]_vars

\* C11: done and failed are terminal: no step changes the status of a
\* recording that is done or failed.
C11_TerminalStates ==
  [][\A id \in RecIds :
       (/\ recordings[id] # NoRow
        /\ recordings[id].status \in {"done", "failed"}
        /\ recordings'[id] # NoRow)
         => recordings'[id].status = recordings[id].status]_vars

\* C12: the answer of sp_check_quota_and_create_recording follows from the
\* subscription at call time, in this order: no active subscription; else the
\* job quota when usage_count has reached the job allowance; else the minute
\* quota when used_seconds has reached the minute allowance times 60; else a
\* recording is created.  With both exhausted the answer is the job quota.
C12_OutcomeOrder ==
  \A u \in MainUsers :
    NewRecordingId(recordings) \in MainRecIds =>
      LET r == sp_check_quota_and_create_recording(DB, now, u)
          got == IF r.quota_ok THEN "created"
                 ELSE IF r.raised # "" THEN r.raised
                 ELSE r.error_message.text
          expected ==
            IF ~ActiveSubscription(DB, now, u)
            THEN {"No active subscription found"}
            ELSE IF user_subscriptions[u].usage_count >= JobAllowance(u)
            THEN JobQuotaExceeded
            ELSE IF user_subscriptions[u].used_seconds >= SecondsAllowance(u)
            THEN {"Monthly minutes limit reached"}
            ELSE {"created"}
      IN got \in expected

\* the recordings a step has inserted
CreatedBy(recs, recs2) == {i \in RecIds : recs[i] = NoRow /\ recs2[i] # NoRow}

\* C13: a reservation is atomic: a successful sp_check_quota_and_create_recording
\* call inserts exactly one recording, in status pending, and raises the
\* caller's usage_count by exactly 1 in the same step; a refused call inserts
\* no recording and changes no subscription.
C13_ReservationAtomic ==
  [][last'.op = "CheckAndReserve" =>
       IF last'.out = ""
       THEN /\ Cardinality(CreatedBy(recordings, recordings')) = 1
            /\ \A i \in CreatedBy(recordings, recordings') :
                 /\ recordings'[i].status = "pending"
                 /\ user_subscriptions'[recordings'[i].user_id].usage_count
                      = user_subscriptions[recordings'[i].user_id].usage_count + 1
            /\ \A i \in RecIds \ CreatedBy(recordings, recordings') :
                 recordings'[i] = recordings[i]
       ELSE /\ recordings' = recordings
            /\ user_subscriptions' = user_subscriptions]_vars

C15_CallbackAfterDelete ==
  \A id \in deleted :
    recordings[id] = NoRow =>
      /\ update_status_failed(DB, id).db = DB
      /\ \A d \in DurationsMs, b \in Batches :
           LET r == sp_complete_recording(DB, now, id, d, b)
           IN ~r.raised /\ r.db = DB

\* C16: every recording that becomes done has its seconds charged: a step
\* that moves a recording to done with duration_ms >= 1000 increases
\* used_seconds of some subscription, also when the owner's cycle_end has
\* passed and sp_reset_monthly_cycles has not run yet.
C16_DoneIsCharged ==
  [][\A id \in RecIds :
       (/\ recordings[id] # NoRow
        /\ recordings[id].status # "done"
        /\ recordings'[id] # NoRow
        /\ recordings'[id].status = "done"
        /\ recordings'[id].duration_ms >= 1000)
         => \E u \in Users :
              /\ Registered(u)
              /\ user_subscriptions'[u].used_seconds
                   > user_subscriptions[u].used_seconds]_vars

\* a step completes recording id, reserved in an earlier cycle of its owner
CompletedAfterRollover(id) ==
  /\ recordings[id] # NoRow
  /\ recordings[id].status # "done"
  /\ recordings'[id] # NoRow
  /\ recordings'[id].status = "done"
  /\ recordings[id].created_at < user_subscriptions[recordings[id].user_id].cycle_start

C18_ChargeIsWholeSeconds ==
  \A id \in MainRecIds, d \in DurationsMs, b \in Batches :
    (recordings[id] # NoRow /\ ActiveSubscription(DB, now, recordings[id].user_id)) =>
      LET r == sp_complete_recording(DB, now, id, d, b)
          before == user_subscriptions[recordings[id].user_id]
          after == r.db.user_subscriptions[recordings[id].user_id]
      IN ~r.raised =>
           /\ after.used_seconds = before.used_seconds + (d - (d % 1000)) \div 1000
           /\ after.usage_count = before.usage_count
           /\ after.cycle_start = before.cycle_start
           /\ after.cycle_end = before.cycle_end

\* a recording of 60500 ms has just been completed in the cycle it was
\* reserved in, and the cycle holds 60 seconds and still one job
C18_Witness ==
  /\ last.op = "Complete"
  /\ last.out = ""
  /\ \E id \in MainRecIds :
       /\ recordings[id] # NoRow
       /\ recordings[id].status = "done"
       /\ recordings[id].duration_ms = 60500
       /\ ActiveSubscription(DB, now, recordings[id].user_id)
       /\ recordings[id].created_at >= user_subscriptions[recordings[id].user_id].cycle_start
       /\ user_subscriptions[recordings[id].user_id].used_seconds = 60
       /\ user_subscriptions[recordings[id].user_id].usage_count = 1

\* C19: Complete is all-or-nothing: a sp_complete_recording call either leaves
\* recordings, segments and subscriptions as they were, or leaves the
\* recording done with its whole batch stored and duration_ms div 1000 added
\* to its owner's used_seconds; a call that raised has changed nothing.
C19_CompleteAllOrNothing ==
  [][last'.op = "Complete" =>
       \/ /\ recordings' = recordings
          /\ segments' = segments
          /\ user_subscriptions' = user_subscriptions
       \/ /\ last'.out = ""
          /\ \E id \in MainRecIds, b \in Batches \cup {MixedBatch} :
               /\ recordings[id] # NoRow
               /\ recordings'[id].status = "done"
               /\ segments' = segments (+) SegmentRows(id, b)
               /\ user_subscriptions'[recordings[id].user_id].used_seconds
                    = user_subscriptions[recordings[id].user_id].used_seconds
                        + (recordings'[id].duration_ms \div 1000)]_vars

\* C20: when sp_complete_recording raises while completing a recording, then
\* after the call the recording's status is failed, no segment of the call is
\* stored and no seconds were charged.
C20_ErrorMarksFailed ==
  \A id \in MainRecIds, d \in DurationsMs, b \in Batches \cup {MixedBatch} :
    recordings[id] # NoRow =>
      LET r == sp_complete_recording(DB, now, id, d, b)
      IN r.raised =>
           /\ r.db.recordings[id].status = "failed"
           /\ SegmentCount(r.db.segments, id) = SegmentCount(segments, id)
           /\ r.db.user_subscriptions = user_subscriptions

\* the plan with is_default = TRUE
DefaultPlan == CHOOSE c \in PlanCodes : plans[c].is_default

\* C21: when sp_reset_monthly_cycles resets a subscription whose plan is
\* inactive, the subscription is re-pointed to the default plan and its
\* snapshot is overwritten with the default plan's allowances; when the plan
\* is active, the snapshot is refreshed from that plan.
C21_RolloverResnapshot ==
  [][last'.op = "Rollover" =>
       \A u \in Users :
         (Registered(u) /\ user_subscriptions[u].cycle_end <= now) =>
           LET target == IF plans[user_subscriptions[u].plan_id].is_active
                         THEN user_subscriptions[u].plan_id
                         ELSE DefaultPlan
           IN /\ user_subscriptions'[u].plan_id = target
              /\ user_subscriptions'[u].plan_monthly_usage_limit_snapshot
                   = plans[target].monthly_usage_limit
              /\ user_subscriptions'[u].plan_monthly_minutes_snapshot
                   = plans[target].monthly_minutes]_vars

\* segments a transcription gateway must not send: an index that skips 1, and
\* an interval that ends before it starts
SegGap == [idx |-> 2, start_ms |-> 1000, end_ms |-> 2000, text |-> "b"]
SegBackwards == [idx |-> 0, start_ms |-> 1000, end_ms |-> 0, text |-> "a"]
BadBatches == {<<SegA, SegGap>>, <<SegBackwards>>}

\* indices contiguous and every segment with start_ms < end_ms
WellOrdered(b) ==
  /\ \A i \in 1 .. Len(b) : b[i].idx = b[1].idx + (i - 1)
  /\ \A i \in 1 .. Len(b) : b[i].start_ms < b[i].end_ms

\* C22: sp_complete_recording stores a batch only if its indices are
\* contiguous and every segment has start_ms < end_ms; any other batch is
\* rejected: none of its segments is stored and the recording is left as it was.
C22_SegmentsValidated ==
  \A id \in MainRecIds, d \in DurationsMs, b \in Batches \cup BadBatches :
    (recordings[id] # NoRow /\ ~WellOrdered(b)) =>
      LET r == sp_complete_recording(DB, now, id, d, b)
      IN /\ r.db.segments = segments
         /\ r.db.recordings[id] = recordings[id]

\* C23: in every state, a recording whose status is not done has
\* duration_ms = 0 and no segments.
C23_NotDoneIsEmpty ==
  \A id \in RecIds :
    (recordings[id] # NoRow /\ recordings[id].status # "done") =>
      /\ recordings[id].duration_ms = 0
      /\ SegmentCount(segments, id) = 0

\* a sp_complete_recording call has just raised while one recording is done
\* with its segments and another one is failed
C23_Witness ==
  /\ last.op = "Complete"
  /\ last.out = "raised"
  /\ \E i, j \in MainRecIds :
       /\ recordings[i] # NoRow /\ recordings[j] # NoRow
       /\ recordings[i].status = "done"
       /\ SegmentCount(segments, i) > 0
       /\ recordings[j].status = "failed"

\* C24: sp_change_user_plan returns success = FALSE and changes nothing when
\* the plan code is unknown, when the user has no active subscription or when
\* the subscription is already on that plan; otherwise it sets plan_id to the
\* new plan, and sets usage_count and used_seconds to 0 when prorate is TRUE
\* and leaves both as they were when prorate is FALSE.
C24_ChangePlan ==
  \A u \in MainUsers, code \in PlanCodes \cup {"NOPE"}, prorate \in BOOLEAN :
    LET r == sp_change_user_plan(DB, now, u, code, prorate)
        refused == \/ code \notin PlanCodes
                   \/ ~ActiveSubscription(DB, now, u)
                   \/ user_subscriptions[u].plan_id = code
        before == user_subscriptions[u]
        after == r.db.user_subscriptions[u]
    IN IF refused
       THEN ~r.success /\ r.db = DB
       ELSE /\ r.success
            /\ after.plan_id = code
            /\ after.usage_count = (IF prorate THEN 0 ELSE before.usage_count)
            /\ after.used_seconds = (IF prorate THEN 0 ELSE before.used_seconds)

\* a plan change has just succeeded and kept the counters of the running cycle
C24_Witness ==
  /\ last.op = "ChangePlan"
  /\ last.out = "Successfully changed plan"
  /\ \E u \in MainUsers :
       /\ Registered(u)
       /\ user_subscriptions[u].usage_count > 0
       /\ user_subscriptions[u].used_seconds > 0
       /\ plans[user_subscriptions[u].plan_id].monthly_usage_limit # JobAllowance(u)

\* the recordings a step has removed
RemovedBy(recs, recs2) == {i \in RecIds : recs[i] # NoRow /\ recs2[i] = NoRow}

\* C25: a sp_cleanup_old_recordings call deletes recordings that are done and
\* older than the retention, at most in_batch_size of them, together with
\* their segments, and deletes no other recording.
C25_CleanupOldDone ==
  [][last'.op = "Cleanup" =>
       LET eligible == CleanupEligible(DB, now, Retention)
           gone == RemovedBy(recordings, recordings')
           quota == IF Cardinality(eligible) < BatchSize
                    THEN Cardinality(eligible) ELSE BatchSize
       IN /\ gone \subseteq eligible
          /\ Cardinality(gone) = quota
          /\ \A id \in gone : SegmentCount(segments', id) = 0
          /\ \A id \in RecIds \ gone :
               /\ recordings'[id] = recordings[id]
               /\ SegmentCount(segments', id) = SegmentCount(segments, id)]_vars

\* C26: in every call of useCompleteUpload().upload the three requests run in
\* order (create, then file upload, then markUploadCompleted);
\* markUploadCompleted is sent at most once and only after both earlier
\* requests succeeded; after a failed step no later request is sent and the
\* call ends by rethrowing, and a call returns only when all three succeeded.
C26_UploadStepsInOrder ==
  \A c \in UploadCalls :
    LET u == uploads[c]
    IN /\ u.markCalls <= 1
       /\ u.file # "none" => u.create = "ok"
       /\ u.markCalls > 0 => u.create = "ok" /\ u.file = "ok"
       /\ u.create = "failed" => u.file = "none" /\ u.markCalls = 0
       /\ u.file = "failed" => u.markCalls = 0
       /\ u.failed # "none" => u.at \in {"catch", "thrown"}
       /\ u.at = "returned" => u.create = "ok" /\ u.file = "ok" /\ u.mark = "ok"

\* one call rethrew after its file upload failed, without sending
\* markUploadCompleted, while another call returned after sending it once
C26_Witness ==
  \E c, d \in UploadCalls :
    /\ uploads[c].at = "thrown" /\ uploads[c].failed = "upload"
    /\ uploads[c].markCalls = 0
    /\ uploads[d].at = "returned" /\ uploads[d].markCalls = 1

\* C27: in every committed state a user row, its profile row and its
\* subscription row exist together or not at all (one of each, by the keys),
\* and a call of sp_register_user that raises, an unknown default plan code
\* included, leaves all three tables as they were.
C27_RegisterAllOrNothing ==
  /\ \A u \in Users :
       /\ (u \in users) <=> (u \in user_profiles)
       /\ (u \in users) <=> (user_subscriptions[u] # NoRow)
  /\ \A u \in Users, code \in PlanCodes \cup {"NOPE"} :
       LET r == sp_register_user(DB, now, u, code)
       IN r.raised # "" => r.db = DB

\* one user is registered with profile and subscription, and a registration
\* of the other with an unknown plan code has just raised and left no row
C27_Witness ==
  /\ last = [op |-> "RegisterUser", out |-> "default plan not found"]
  /\ \E u, w \in Users :
       /\ u \in users /\ u \in user_profiles /\ user_subscriptions[u] # NoRow
       /\ w \notin users /\ w \notin user_profiles /\ user_subscriptions[w] = NoRow

\* C28: in a call of sp_check_quota_and_create_recording that runs alone,
\* whenever the function's own quota check passes (active subscription, both
\* comparisons against the plans row pass) the trigger's check on the inserted
\* row passes too: the call returns quota_ok = TRUE and raises nothing, also
\* after a plan change.
C28_ChecksAgree ==
  \A u \in MainUsers :
    (/\ ActiveSubscription(DB, now, u)
     /\ quota_check(user_subscriptions[u],
                    plans[user_subscriptions[u].plan_id]) = NoMessage
     /\ NewRecordingId(recordings) \in MainRecIds)
      => LET r == sp_check_quota_and_create_recording(DB, now, u)
         IN r.raised = "" /\ r.quota_ok

C30_NothingHeldWhenStopped ==
  ~isRecording =>
    \A c \in StartCalls :
      /\ streams[c] # "live"
      /\ contexts[c] \notin {"running", "loaded"}
      /\ worklets[c] # "connected"
      /\ sockets[c] \notin {"CONNECTING", "OPEN"}

====
